---- MODULE Spec2Model ----
(***************************************************************************)
(* KYCWall (src/components/KYCWall/BaseKYCWall.js): the gate that decides, *)
(* on a press of the wrapped button, whether to show the add-payment-method *)
(* popover, to navigate to the "enable payments" route, or to continue the  *)
(* action behind the wall.  One wall instance, its props, its hooks' state, *)
(* the Onyx-supplied account records, the geometry of the page, and what    *)
(* each handler asked of its collaborators (Navigation, onSuccessfulKYC,    *)
(* Log).                                                                    *)
(***************************************************************************)
EXTENDS Integers, Sequences, FiniteSets

(* ------------------------------ bounds ---------------------------------- *)

\* Window layouts 0..MaxLayout: a Dimensions change moves the page to another.
MaxLayout == 1

Layouts == 0..MaxLayout

\* The buttons that can be an event's nativeEvent.target.
Targets == {1, 2}

\* The coordinates of the rectangles getAnchorPosition is called with: the
\* small ones, and those of target 1 in layout 0.
MaxCoord == 2
Coordinates == (0..MaxCoord) \cup {20, 50, 80, 100}
DOMRects == [top : Coordinates, left : Coordinates, height : Coordinates, width : Coordinates]

(* ----------------------------- constants -------------------------------- *)

POPOVER_MENU_ANCHOR_POSITION_VERTICAL_OFFSET == 2
POPOVER_MENU_ANCHOR_POSITION_HORIZONTAL_OFFSET == 20

\* CONST.MODAL.POPOVER_MENU_PADDING (src/CONST.js is not among the sources).
POPOVER_MENU_PADDING == 8

\* CONST.BANK_ACCOUNT.STATE.OPEN, CONST.WALLET.TIER_NAME.GOLD
STATE_OPEN == "OPEN"
TIER_GOLD == "GOLD"

\* CONST.PAYMENT_METHODS
BANK_ACCOUNT == "bankAccount"
DEBIT_CARD == "debitCard"
Items == {BANK_ACCOUNT, DEBIT_CARD, "payPalMe"}

\* The route props of the wall.
enablePaymentsRoute == "enablePaymentsRoute"
addBankAccountRoute == "addBankAccountRoute"
addDebitCardRoute == "addDebitCardRoute"

\* The iouPaymentType a button hands to continueAction.
PaymentTypes == {"Expensify", "Elsewhere"}

Placements == {"top", "bottom"}
\* The placements getAnchorPosition is called with: it takes any string.
AnchorPlacements == Placements \cup {"left"}
ChatReportIDs == {"chat1", "chat2"}

\* JavaScript's null and undefined; a ref that holds no target.
Null == "null"
Undefined == "undefined"
NullRef == 0

(* ------------------------- the account records -------------------------- *)

\* reimbursementAccount: no record, or a record with achData.state.
ReimbursementAccounts == {Null, "PENDING", STATE_OPEN}

\* fundList: no record (null), or a set of cards; a card is a P2P debit card
\* or not.
NullList == [isNull |-> TRUE, cards |-> {}]
List(cards) == [isNull |-> FALSE, cards |-> cards]
FundLists == {NullList, List({}), List({"billingCard"}), List({"p2pDebitCard"})}

\* bankAccountList: a set of bank accounts; an account is open or not.
BankAccountLists == {{}, {"openAccount"}}

\* userWallet.tierName: unset, or a tier.  A userWallet that is itself null or
\* undefined is Null.
TierNames == {"", "SILVER", TIER_GOLD}

VARIABLES
    mounted,                    \* the wall is mounted (its effect has run)
    shouldListenForResize,      \* prop
    popoverPlacement,           \* prop
    chatReportID,               \* prop
    shouldShowAddPaymentMenu,   \* useState
    anchorPosition,             \* useState
    transferBalanceButtonRef,   \* useRef: NullRef or a target
    dimensionsSubscription,     \* the effect's subscription: Null, or the
                                \* placement of the setMenuPosition it holds
    kycWallRef,                 \* PaymentMethods.kycWallRef.current
    kycWallSourceChatReportID,  \* what Wallet.setKYCWallSourceChatReportID stored
    iouReport,                  \* prop: TRUE iff ReportUtils.isExpenseReport(iouReport)
    fundList,                   \* Onyx
    bankAccountList,            \* Onyx
    reimbursementAccount,       \* Onyx
    userWallet,                 \* Onyx: userWallet.tierName
    layout,                     \* the page's current layout
    ev,                         \* the event handled last
    navigated,                  \* routes the last handler gave Navigation.navigate
    continued,                  \* arguments the last handler gave onSuccessfulKYC
    logged,                     \* lines the last handler gave Log.info
    thrown,                     \* the last handler ended in a TypeError
    listeners,                  \* the 'change' listeners Dimensions holds, in the
                                \* order of their registration: the placement of
                                \* the setMenuPosition each one is
    activeWalls,                \* the mounted walls, in the order in which their
                                \* effects last ran: 1 is this wall, 2 another
    calc                        \* a call of getAnchorPosition and its result

account == <<iouReport, fundList, bankAccountList, reimbursementAccount, userWallet>>
props == <<shouldListenForResize, popoverPlacement, chatReportID>>
hooks == <<shouldShowAddPaymentMenu, anchorPosition, transferBalanceButtonRef>>
lifecycle == <<mounted, dimensionsSubscription, kycWallRef, kycWallSourceChatReportID,
              listeners, activeWalls>>
outputs == <<navigated, continued, logged, thrown>>
wall == <<account, props, hooks, lifecycle, layout, ev, outputs>>
vars == <<wall, calc>>

(* ------------------------------ geometry -------------------------------- *)

\* getClickedTargetLocation(target): the target's bounding rectangle in the
\* page's current layout.  Target 1 in layout 0 is {100, 50, 20, 80}.
getClickedTargetLocation(target, l) ==
    [top    |-> 100 + 60 * (target - 1) + 7 * l,
     left   |-> 50 + 40 * (target - 1) + 3 * l,
     height |-> 20 + 4 * l,
     width  |-> 80 - 5 * l]

\* Mutant: the vertical offset is added below the target, not taken off.
getAnchorPosition_offsetAdded(domRect, placement) ==
    IF placement = "bottom"
    THEN [anchorPositionVertical |->
              domRect.top + (domRect.height + POPOVER_MENU_ANCHOR_POSITION_VERTICAL_OFFSET),
          anchorPositionHorizontal |->
              domRect.left + POPOVER_MENU_ANCHOR_POSITION_HORIZONTAL_OFFSET]
    ELSE [anchorPositionVertical |-> domRect.top - POPOVER_MENU_PADDING,
          anchorPositionHorizontal |-> domRect.left]

\* Mutant: a bottom menu is anchored at the right edge of the target.
getAnchorPosition_rightEdge(domRect, placement) ==
    IF placement = "bottom"
    THEN [anchorPositionVertical |->
              domRect.top + (domRect.height - POPOVER_MENU_ANCHOR_POSITION_VERTICAL_OFFSET),
          anchorPositionHorizontal |-> domRect.left + domRect.width]
    ELSE [anchorPositionVertical |-> domRect.top - POPOVER_MENU_PADDING,
          anchorPositionHorizontal |-> domRect.left]

getAnchorPosition(domRect, placement) ==
    IF placement = "bottom"
    THEN [anchorPositionVertical |->
              domRect.top + (domRect.height - POPOVER_MENU_ANCHOR_POSITION_VERTICAL_OFFSET),
          anchorPositionHorizontal |->
              domRect.left + POPOVER_MENU_ANCHOR_POSITION_HORIZONTAL_OFFSET]
    ELSE [anchorPositionVertical |-> domRect.top - POPOVER_MENU_PADDING,
          anchorPositionHorizontal |-> domRect.left]

(* ----------------------------- eligibility ------------------------------ *)

\* lodashGet(reimbursementAccount, 'achData.state', '')
achDataState(account_) == IF account_ = Null THEN "" ELSE account_

\* PaymentUtils.hasExpensifyPaymentMethod(fundList, bankAccountList)
hasExpensifyPaymentMethod(cards, accounts) ==
    ("openAccount" \in accounts) \/ ("p2pDebitCard" \in cards)

\* fundList || {}
paymentCardList(list) == IF list.isNull THEN {} ELSE list.cards

\* Mutant: the check of the expense case is left out.
noValidPaymentMethod_nonExpenseOnly ==
    ~iouReport /\ ~hasExpensifyPaymentMethod(paymentCardList(fundList), bankAccountList)

\* Mutant: the check of the non-expense case is left out.
noValidPaymentMethod_expenseOnly ==
    iouReport /\ achDataState(reimbursementAccount) # STATE_OPEN

\* The condition of the first branch of continueAction.
noValidPaymentMethod ==
    \/ iouReport /\ achDataState(reimbursementAccount) # STATE_OPEN
    \/ ~iouReport /\ ~hasExpensifyPaymentMethod(paymentCardList(fundList), bankAccountList)

\* Mutant: any tier name passes for a gold wallet.
hasGoldWallet_anyTier == userWallet # ""

hasGoldWallet == userWallet # "" /\ userWallet = TIER_GOLD

(* ------------------------------- Init ----------------------------------- *)

NoEvent == [op |-> "mount", arg |-> "", target |-> 0, wasVisible |-> FALSE]

\* What the effect of line 90 sets up.
effectSubscription(listen, placement) == IF listen THEN placement ELSE Null

\* Dimensions' listeners after the effect has run: line 96 adds one.
addEventListener(ls, listen, placement) ==
    IF listen THEN Append(ls, placement) ELSE ls

\* No call of getAnchorPosition is looked at.
NoCalc == [domRect |-> [top |-> 0, left |-> 0, height |-> 0, width |-> 0],
           placement |-> "", calls |-> 0,
           position |-> [anchorPositionVertical |-> 0, anchorPositionHorizontal |-> 0],
           previous |-> [top |-> 0, left |-> 0, height |-> 0, width |-> 0],
           previousPosition |-> [anchorPositionVertical |-> 0, anchorPositionHorizontal |-> 0]]

\* This wall, and another wall of the page.
ThisWall == "thisWall"
OtherWall == "otherWall"

Init ==
    /\ mounted = TRUE
    /\ shouldListenForResize \in BOOLEAN
    /\ popoverPlacement \in Placements
    /\ chatReportID \in ChatReportIDs
    /\ shouldShowAddPaymentMenu = FALSE
    /\ anchorPosition = [anchorPositionVertical |-> 0, anchorPositionHorizontal |-> 0]
    /\ transferBalanceButtonRef = NullRef
    /\ dimensionsSubscription = effectSubscription(shouldListenForResize, popoverPlacement)
    /\ kycWallRef = Undefined
    /\ kycWallSourceChatReportID = chatReportID
    /\ iouReport \in BOOLEAN
    /\ fundList \in FundLists
    /\ bankAccountList \in BankAccountLists
    /\ reimbursementAccount \in ReimbursementAccounts
    /\ userWallet \in TierNames
    /\ layout = 0
    /\ ev = NoEvent
    /\ navigated = <<>>
    /\ continued = <<>>
    /\ logged = <<>>
    /\ thrown = FALSE
    /\ listeners = addEventListener(<<>>, shouldListenForResize, popoverPlacement)
    /\ activeWalls = <<ThisWall>>
    /\ calc = NoCalc

(* ------------------------------ handlers -------------------------------- *)

\* Mutant: the target is stored before the menu is looked at.
hideAddPaymentMenu_storesTarget ==
    /\ shouldShowAddPaymentMenu' = FALSE
    /\ navigated' = <<>> /\ continued' = <<>> /\ logged' = <<>> /\ thrown' = FALSE
    /\ transferBalanceButtonRef' = ev'.target
    /\ UNCHANGED anchorPosition

\* Lines 119-123: the menu is showing, so the press only hides it.
hideAddPaymentMenu ==
    /\ shouldShowAddPaymentMenu' = FALSE
    /\ navigated' = <<>> /\ continued' = <<>> /\ logged' = <<>> /\ thrown' = FALSE
    /\ UNCHANGED <<anchorPosition, transferBalanceButtonRef>>

\* Lines 135-143: no valid payment method, so the menu is shown at the target.
showAddPaymentMenu(target) ==
    /\ logged' = <<"User does not have valid payment method">>
    /\ anchorPosition' =
         getAnchorPosition(getClickedTargetLocation(target, layout), popoverPlacement)
    /\ shouldShowAddPaymentMenu' = TRUE
    /\ navigated' = <<>> /\ continued' = <<>> /\ thrown' = FALSE

\* Mutant: the return after Navigation.navigate is missing.
enablePayments_fallsThrough ==
    /\ logged' = <<"User does not have gold wallet",
                   "User has valid payment method and passed KYC checks or did not need them">>
    /\ navigated' = <<enablePaymentsRoute>>
    /\ continued' = <<ev'.arg>>
    /\ thrown' = FALSE
    /\ UNCHANGED <<shouldShowAddPaymentMenu, anchorPosition>>

\* Lines 151-154: no gold wallet, so the user is sent to enable payments.
enablePayments ==
    /\ logged' = <<"User does not have gold wallet">>
    /\ navigated' = <<enablePaymentsRoute>>
    /\ continued' = <<>>
    /\ thrown' = FALSE
    /\ UNCHANGED <<shouldShowAddPaymentMenu, anchorPosition>>

\* Mutant: onSuccessfulKYC is called without its argument.
successfulKYC_noArgument(iouPaymentType) ==
    /\ logged' = <<"User has valid payment method and passed KYC checks or did not need them">>
    /\ continued' = <<Undefined>>
    /\ navigated' = <<>>
    /\ thrown' = FALSE
    /\ UNCHANGED <<shouldShowAddPaymentMenu, anchorPosition>>

\* Lines 158-159: the action behind the wall continues.
successfulKYC(iouPaymentType) ==
    /\ logged' = <<"User has valid payment method and passed KYC checks or did not need them">>
    /\ continued' = <<iouPaymentType>>
    /\ navigated' = <<>>
    /\ thrown' = FALSE
    /\ UNCHANGED <<shouldShowAddPaymentMenu, anchorPosition>>

\* Line 148: userWallet.tierName of a userWallet that is null or undefined.
typeError ==
    /\ thrown' = TRUE
    /\ navigated' = <<>> /\ continued' = <<>> /\ logged' = <<>>
    /\ UNCHANGED <<shouldShowAddPaymentMenu, anchorPosition>>

continueAction(target, iouPaymentType) ==
    /\ mounted
    /\ ev' = [op |-> "trigger", arg |-> iouPaymentType, target |-> target,
              wasVisible |-> shouldShowAddPaymentMenu]
    /\ IF shouldShowAddPaymentMenu
       THEN hideAddPaymentMenu
       ELSE /\ transferBalanceButtonRef' = target
            /\ IF noValidPaymentMethod
               THEN showAddPaymentMenu(target)
               ELSE IF ~iouReport /\ userWallet = Null
               THEN typeError
               ELSE IF ~iouReport /\ ~hasGoldWallet
               THEN enablePayments
               ELSE successfulKYC(iouPaymentType)
    /\ UNCHANGED <<account, props, lifecycle, layout, calc>>

\* Mutant: the two routes are taken for one another.
itemRoute_swapped(item) ==
    IF item = BANK_ACCOUNT THEN <<addDebitCardRoute>>
    ELSE IF item = DEBIT_CARD THEN <<addBankAccountRoute>>
    ELSE <<>>

\* Lines 165-169: the route of the chosen item, if it has one.
itemRoute(item) ==
    IF item = BANK_ACCOUNT THEN <<addBankAccountRoute>>
    ELSE IF item = DEBIT_CARD THEN <<addDebitCardRoute>>
    ELSE <<>>

handleItemSelected(item) ==
    /\ mounted
    /\ ev' = [op |-> "select", arg |-> item, target |-> 0,
              wasVisible |-> shouldShowAddPaymentMenu]
    /\ shouldShowAddPaymentMenu' = FALSE
    /\ navigated' = itemRoute(item)
    /\ continued' = <<>> /\ logged' = <<>> /\ thrown' = FALSE
    /\ UNCHANGED <<anchorPosition, transferBalanceButtonRef>>
    /\ UNCHANGED <<account, props, lifecycle, layout, calc>>

\* Mutant: closing the menu also resets its position.
onClose_resetsPosition ==
    /\ mounted
    /\ ev' = [op |-> "dismiss", arg |-> "", target |-> 0,
              wasVisible |-> shouldShowAddPaymentMenu]
    /\ shouldShowAddPaymentMenu' = FALSE
    /\ anchorPosition' = [anchorPositionVertical |-> 0, anchorPositionHorizontal |-> 0]
    /\ navigated' = <<>> /\ continued' = <<>> /\ logged' = <<>> /\ thrown' = FALSE
    /\ UNCHANGED transferBalanceButtonRef
    /\ UNCHANGED <<account, props, lifecycle, layout, calc>>

onClose ==
    /\ mounted
    /\ ev' = [op |-> "dismiss", arg |-> "", target |-> 0,
              wasVisible |-> shouldShowAddPaymentMenu]
    /\ shouldShowAddPaymentMenu' = FALSE
    /\ navigated' = <<>> /\ continued' = <<>> /\ logged' = <<>> /\ thrown' = FALSE
    /\ UNCHANGED <<anchorPosition, transferBalanceButtonRef>>
    /\ UNCHANGED <<account, props, lifecycle, layout, calc>>

\* Mutant: the listener does not look whether a button was ever pressed.
setMenuPosition_noRefCheck(placement, l) ==
    getAnchorPosition(getClickedTargetLocation(transferBalanceButtonRef, l), placement)

\* Mutant: the listener uses the rectangle the button had before the change.
setMenuPosition_staleLocation(placement, l) ==
    IF transferBalanceButtonRef = NullRef
    THEN anchorPosition
    ELSE getAnchorPosition(getClickedTargetLocation(transferBalanceButtonRef, layout),
                           placement)

\* setMenuPosition, as the subscription of the given placement runs it on a
\* page in layout l: the position it hands to setPositionAddPaymentMenu.
setMenuPosition(placement, l) ==
    IF transferBalanceButtonRef = NullRef
    THEN anchorPosition
    ELSE getAnchorPosition(getClickedTargetLocation(transferBalanceButtonRef, l), placement)

\* Dimensions emits 'change': the page is laid out anew, and the listeners
\* this wall has registered run in their order, so the position the last of
\* them sets is the one that stays.
dimensionsChange(l) ==
    /\ layout' = l
    /\ ev' = [op |-> "resize", arg |-> "", target |-> 0,
              wasVisible |-> shouldShowAddPaymentMenu]
    /\ anchorPosition' = IF listeners # <<>>
                         THEN setMenuPosition(listeners[Len(listeners)], l)
                         ELSE anchorPosition
    /\ navigated' = <<>> /\ continued' = <<>> /\ logged' = <<>> /\ thrown' = FALSE
    /\ UNCHANGED <<shouldShowAddPaymentMenu, transferBalanceButtonRef>>
    /\ UNCHANGED <<account, props, lifecycle, calc>>

(* --------------------------- account updates ---------------------------- *)

Pushed == [op |-> "account", arg |-> "", target |-> 0,
           wasVisible |-> shouldShowAddPaymentMenu]

quiet == navigated' = <<>> /\ continued' = <<>> /\ logged' = <<>> /\ thrown' = FALSE

\* Mutant: a new wallet record hides the menu.
setUserWallet_closesMenu(v) ==
    /\ v # userWallet
    /\ userWallet' = v
    /\ ev' = Pushed /\ quiet
    /\ shouldShowAddPaymentMenu' = FALSE
    /\ UNCHANGED <<anchorPosition, transferBalanceButtonRef>>
    /\ UNCHANGED <<iouReport, fundList, bankAccountList, reimbursementAccount>>
    /\ UNCHANGED <<props, lifecycle, layout, calc>>

setUserWallet(v) ==
    /\ v # userWallet
    /\ userWallet' = v
    /\ ev' = Pushed /\ quiet
    /\ UNCHANGED <<iouReport, fundList, bankAccountList, reimbursementAccount>>
    /\ UNCHANGED <<props, hooks, lifecycle, layout, calc>>

setFundList(v) ==
    /\ v # fundList
    /\ fundList' = v
    /\ ev' = Pushed /\ quiet
    /\ UNCHANGED <<iouReport, userWallet, bankAccountList, reimbursementAccount>>
    /\ UNCHANGED <<props, hooks, lifecycle, layout, calc>>

setBankAccountList(v) ==
    /\ v # bankAccountList
    /\ bankAccountList' = v
    /\ ev' = Pushed /\ quiet
    /\ UNCHANGED <<iouReport, userWallet, fundList, reimbursementAccount>>
    /\ UNCHANGED <<props, hooks, lifecycle, layout, calc>>

setReimbursementAccount(v) ==
    /\ v # reimbursementAccount
    /\ reimbursementAccount' = v
    /\ ev' = Pushed /\ quiet
    /\ UNCHANGED <<iouReport, userWallet, fundList, bankAccountList>>
    /\ UNCHANGED <<props, hooks, lifecycle, layout, calc>>

setIouReport(v) ==
    /\ v # iouReport
    /\ iouReport' = v
    /\ ev' = Pushed /\ quiet
    /\ UNCHANGED <<userWallet, fundList, bankAccountList, reimbursementAccount>>
    /\ UNCHANGED <<props, hooks, lifecycle, layout, calc>>

(* ------------------------------ lifecycle ------------------------------- *)

\* subscription.remove(): the listeners without the one subscribed.
removeListener(ls, subscription) ==
    IF \E i \in 1..Len(ls) : ls[i] = subscription
    THEN LET i == CHOOSE i \in 1..Len(ls) :
                      ls[i] = subscription /\ \A j \in 1..(i - 1) : ls[j] # subscription
         IN  SubSeq(ls, 1, i - 1) \o SubSeq(ls, i + 1, Len(ls))
    ELSE ls

\* Mutant: the cleanup does not remove the subscription.
effectCleanup_keepsListener == listeners

\* The cleanup of the effect: the listeners it leaves with Dimensions.
effectCleanup == IF shouldListenForResize /\ dimensionsSubscription # Null
                 THEN removeListener(listeners, dimensionsSubscription)
                 ELSE listeners

\* The mounted walls without one of them.
without(walls, w) == SelectSeq(walls, LAMBDA x : x # w)

\* Mutant: the cleanup leaves kycWallRef as it is.
unmount_keepsReference ==
    /\ mounted
    /\ mounted' = FALSE
    /\ dimensionsSubscription' = Null
    /\ listeners' = effectCleanup
    /\ activeWalls' = without(activeWalls, ThisWall)
    /\ shouldShowAddPaymentMenu' = FALSE
    /\ anchorPosition' = [anchorPositionVertical |-> 0, anchorPositionHorizontal |-> 0]
    /\ transferBalanceButtonRef' = NullRef
    /\ ev' = [op |-> "unmount", arg |-> "", target |-> 0,
              wasVisible |-> shouldShowAddPaymentMenu]
    /\ quiet
    /\ UNCHANGED <<kycWallRef, kycWallSourceChatReportID, account, props, layout, calc>>

\* The wall is unmounted: the effect's cleanup runs, the hooks' state is gone.
unmount ==
    /\ mounted
    /\ mounted' = FALSE
    /\ dimensionsSubscription' = Null
    /\ listeners' = effectCleanup
    /\ activeWalls' = without(activeWalls, ThisWall)
    /\ kycWallRef' = Null
    /\ shouldShowAddPaymentMenu' = FALSE
    /\ anchorPosition' = [anchorPositionVertical |-> 0, anchorPositionHorizontal |-> 0]
    /\ transferBalanceButtonRef' = NullRef
    /\ ev' = [op |-> "unmount", arg |-> "", target |-> 0,
              wasVisible |-> shouldShowAddPaymentMenu]
    /\ quiet
    /\ UNCHANGED <<kycWallSourceChatReportID, account, props, layout, calc>>

\* A wall is mounted with the given props: first render, then the effect.
mount(listen, placement, chat) ==
    /\ ~mounted
    /\ mounted' = TRUE
    /\ shouldListenForResize' = listen
    /\ popoverPlacement' = placement
    /\ chatReportID' = chat
    /\ dimensionsSubscription' = effectSubscription(listen, placement)
    /\ listeners' = addEventListener(listeners, listen, placement)
    /\ activeWalls' = Append(activeWalls, ThisWall)
    /\ kycWallRef' = Undefined
    /\ kycWallSourceChatReportID' = chat
    /\ ev' = NoEvent
    /\ quiet
    /\ UNCHANGED <<hooks, account, layout, calc>>

\* The parent renders the wall with other props: a dependency of the effect
\* changed, so its cleanup runs and then the effect again.
rerender(listen, placement, chat) ==
    /\ mounted
    /\ <<listen, placement, chat>> # props
    /\ shouldListenForResize' = listen
    /\ popoverPlacement' = placement
    /\ chatReportID' = chat
    /\ dimensionsSubscription' = effectSubscription(listen, placement)
    /\ listeners' = addEventListener(effectCleanup, listen, placement)
    /\ activeWalls' = Append(without(activeWalls, ThisWall), ThisWall)
    /\ kycWallRef' = Undefined
    /\ kycWallSourceChatReportID' = chat
    /\ ev' = [op |-> "rerender", arg |-> "", target |-> 0,
              wasVisible |-> shouldShowAddPaymentMenu]
    /\ quiet
    /\ UNCHANGED <<mounted, hooks, account, layout, calc>>

\* Another wall of the page is mounted: its effect writes the same kycWallRef
\* and publishes its own chat report ID.  Its resize listener sets its own
\* menu's position, not this wall's.
mountOther(chat) ==
    /\ \A i \in 1..Len(activeWalls) : activeWalls[i] # OtherWall
    /\ activeWalls' = Append(activeWalls, OtherWall)
    /\ kycWallRef' = Undefined
    /\ kycWallSourceChatReportID' = chat
    /\ ev' = [op |-> "mountOther", arg |-> "", target |-> 0,
              wasVisible |-> shouldShowAddPaymentMenu]
    /\ quiet
    /\ UNCHANGED <<mounted, dimensionsSubscription, listeners>>
    /\ UNCHANGED <<account, props, hooks, layout, calc>>

\* The other wall is unmounted: the cleanup of its effect runs.
unmountOther ==
    /\ \E i \in 1..Len(activeWalls) : activeWalls[i] = OtherWall
    /\ activeWalls' = without(activeWalls, OtherWall)
    /\ kycWallRef' = Null
    /\ ev' = [op |-> "unmountOther", arg |-> "", target |-> 0,
              wasVisible |-> shouldShowAddPaymentMenu]
    /\ quiet
    /\ UNCHANGED <<mounted, dimensionsSubscription, listeners, kycWallSourceChatReportID>>
    /\ UNCHANGED <<account, props, hooks, layout, calc>>

Next ==
    \/ \E t \in Targets, p \in PaymentTypes : continueAction(t, p)
    \/ \E i \in Items : handleItemSelected(i)
    \/ onClose
    \/ \E l \in Layouts : dimensionsChange(l)
    \/ \E v \in TierNames : setUserWallet(v)
    \/ \E v \in FundLists : setFundList(v)
    \/ \E v \in BankAccountLists : setBankAccountList(v)
    \/ \E v \in ReimbursementAccounts : setReimbursementAccount(v)
    \/ \E v \in BOOLEAN : setIouReport(v)
    \/ unmount
    \/ \E listen \in BOOLEAN, placement \in Placements, chat \in ChatReportIDs :
          mount(listen, placement, chat)
    \/ \E listen \in BOOLEAN, placement \in Placements, chat \in ChatReportIDs :
          rerender(listen, placement, chat)

Spec == Init /\ [][Next]_vars

\* Two walls on the page, for the lifecycle of the two: the account records
\* are those of a user who has nothing yet, and stay so.
InitTwoWalls ==
    /\ Init
    /\ ~iouReport
    /\ fundList = NullList
    /\ bankAccountList = {}
    /\ reimbursementAccount = Null
    /\ userWallet = ""

NextTwoWalls ==
    \/ \E t \in Targets, p \in PaymentTypes : continueAction(t, p)
    \/ \E i \in Items : handleItemSelected(i)
    \/ onClose
    \/ \E l \in Layouts : dimensionsChange(l)
    \/ unmount
    \/ \E listen \in BOOLEAN, placement \in Placements, chat \in ChatReportIDs :
          mount(listen, placement, chat)
    \/ \E listen \in BOOLEAN, placement \in Placements, chat \in ChatReportIDs :
          rerender(listen, placement, chat)
    \/ \E chat \in ChatReportIDs : mountOther(chat)
    \/ unmountOther

SpecTwoWalls == InitTwoWalls /\ [][NextTwoWalls]_vars

\* The wall of a user whose wallet record is not in Onyx: withOnyx passes
\* null for the userWallet prop (lines 193-195).
clearUserWallet == setUserWallet(Null)

NextAbsent ==
    \/ Next
    \/ clearUserWallet

SpecAbsent == Init /\ [][NextAbsent]_vars

(* --------------------- getAnchorPosition by itself ---------------------- *)

\* A wall at rest, and a rectangle and a placement to call getAnchorPosition
\* with.
InitAnchor ==
    /\ mounted = TRUE
    /\ shouldListenForResize = FALSE
    /\ popoverPlacement = "top"
    /\ chatReportID \in ChatReportIDs
    /\ kycWallSourceChatReportID = chatReportID
    /\ shouldShowAddPaymentMenu = FALSE
    /\ anchorPosition = [anchorPositionVertical |-> 0, anchorPositionHorizontal |-> 0]
    /\ transferBalanceButtonRef = NullRef
    /\ dimensionsSubscription = effectSubscription(shouldListenForResize, popoverPlacement)
    /\ kycWallRef = Undefined
    /\ iouReport = FALSE
    /\ fundList = NullList
    /\ bankAccountList = {}
    /\ reimbursementAccount = Null
    /\ userWallet = ""
    /\ layout = 0
    /\ ev = NoEvent
    /\ navigated = <<>>
    /\ continued = <<>>
    /\ logged = <<>>
    /\ thrown = FALSE
    /\ listeners = addEventListener(<<>>, shouldListenForResize, popoverPlacement)
    /\ activeWalls = <<ThisWall>>
    /\ \E r \in DOMRects, p \in AnchorPlacements :
          calc = [NoCalc EXCEPT !.domRect = r, !.placement = p]

\* getAnchorPosition(domRect) is called with the rectangle and the placement.
callGetAnchorPosition ==
    /\ calc.calls = 0
    /\ calc' = [calc EXCEPT !.calls = 1,
                            !.position = getAnchorPosition(calc.domRect, calc.placement)]
    /\ UNCHANGED wall

\* It is called once more, with a rectangle of width w that is otherwise the
\* same.
callGetAnchorPositionAgain(w) ==
    /\ calc.calls = 1
    /\ calc' = [calc EXCEPT
                  !.calls = 2,
                  !.domRect = [calc.domRect EXCEPT !.width = w],
                  !.position = getAnchorPosition([calc.domRect EXCEPT !.width = w],
                                                 calc.placement),
                  !.previous = calc.domRect,
                  !.previousPosition = calc.position]
    /\ UNCHANGED wall

NextAnchor ==
    \/ callGetAnchorPosition
    \/ \E w \in Coordinates : callGetAnchorPositionAgain(w)

SpecAnchor == InitAnchor /\ [][NextAnchor]_vars

(* ------------------------------------------------------------------------ *)
(* Properties.  A step of a handler is recognised by the event it records;  *)
(* the unprimed variables are the state the handler read, the primed ones   *)
(* what it left and what it asked of Navigation, onSuccessfulKYC and Log.   *)
(* ------------------------------------------------------------------------ *)

\* The usable instruments in the union of the fund list and the bank account
\* list.
UsableInstruments ==
    {c \in (IF fundList.isNull THEN {} ELSE fundList.cards) : c = "p2pDebitCard"}
        \cup {a \in bankAccountList : a = "openAccount"}

\* The account state is eligible.
Eligible ==
    \/ iouReport /\ reimbursementAccount = STATE_OPEN
    \/ ~iouReport /\ UsableInstruments # {} /\ userWallet = TIER_GOLD

\* Steps: a trigger handled in MENU_OPEN, and one handled in IDLE.
TriggerInMenuOpen == ev'.op = "trigger" /\ shouldShowAddPaymentMenu
TriggerInIdle == ev'.op = "trigger" /\ ~shouldShowAddPaymentMenu

\* States: the last event is a trigger that was handled in IDLE.
AfterTriggerInIdle == ev.op = "trigger" /\ ~ev.wasVisible

\* C1: the continuation is invoked only by a trigger that is handled while
\* the menu is hidden and the account state it reads is eligible.
C1_GatingSafety ==
    [][continued' # <<>> => TriggerInIdle /\ Eligible]_vars

\* C1 happens: a trigger has invoked the continuation, after the menu had
\* been opened and closed before.
C1_Witness ==
    /\ AfterTriggerInIdle /\ continued # <<>>
    /\ anchorPosition.anchorPositionHorizontal # 0

\* C2: a trigger handled in MENU_OPEN ends in IDLE; it invokes no
\* continuation, requests no navigation, runs no evaluation (none of its log
\* lines is written) and leaves lastTargetElementRef and anchorPosition alone.
C2_Toggle ==
    [][TriggerInMenuOpen =>
          /\ ~shouldShowAddPaymentMenu'
          /\ continued' = <<>> /\ navigated' = <<>> /\ logged' = <<>>
          /\ transferBalanceButtonRef' = transferBalanceButtonRef
          /\ anchorPosition' = anchorPosition]_vars

\* C2 happens: the menu was toggled off by a press of another button, with a
\* payment type, while the account state was eligible.
C2_Witness ==
    /\ ev.op = "trigger" /\ ev.wasVisible
    /\ ev.target # transferBalanceButtonRef
    /\ Eligible
    /\ ~shouldShowAddPaymentMenu

\* C3: a trigger handled in IDLE with a non-expense context and no usable
\* instrument opens the menu at the anchor of the pressed button, invokes no
\* continuation and requests no navigation.
C3_NoInstrumentOpensMenu ==
    [][TriggerInIdle /\ ~iouReport /\ UsableInstruments = {} =>
          /\ shouldShowAddPaymentMenu'
          /\ anchorPosition' =
               getAnchorPosition(getClickedTargetLocation(ev'.target, layout),
                                 popoverPlacement)
          /\ continued' = <<>> /\ navigated' = <<>>]_vars

\* C3 happens: such a trigger has opened the menu, the fund list holding a
\* card that is not usable.
C3_Witness ==
    /\ AfterTriggerInIdle /\ ~iouReport /\ UsableInstruments = {}
    /\ ~fundList.isNull /\ fundList.cards # {}
    /\ shouldShowAddPaymentMenu

\* C4: a trigger handled in IDLE with a non-expense context, a usable
\* instrument and a wallet tier that is not GOLD stays in IDLE and requests
\* the enable-payments route once and nothing else.
C4_NeedsUpgradeNavigates ==
    [][TriggerInIdle /\ ~iouReport /\ UsableInstruments # {} /\ userWallet # TIER_GOLD =>
          /\ ~shouldShowAddPaymentMenu'
          /\ navigated' = <<enablePaymentsRoute>>
          /\ continued' = <<>>]_vars

\* C4 happens: such a trigger, with the tier unset.
C4_Witness ==
    /\ AfterTriggerInIdle /\ ~iouReport /\ UsableInstruments # {} /\ userWallet = ""
    /\ navigated = <<enablePaymentsRoute>>

\* C5: a trigger handled in IDLE in an eligible account state invokes the
\* continuation once, with the payment type of the trigger, requests no
\* navigation and stays in IDLE.
C5_PassedContinues ==
    [][TriggerInIdle /\ Eligible =>
          /\ continued' = <<ev'.arg>>
          /\ navigated' = <<>>
          /\ ~shouldShowAddPaymentMenu']_vars

\* C5 happens: an expense context with an open reimbursement account, no
\* usable instrument and no gold wallet, and the continuation has run.
C5_Witness ==
    /\ AfterTriggerInIdle /\ iouReport /\ reimbursementAccount = STATE_OPEN
    /\ UsableInstruments = {} /\ userWallet # TIER_GOLD
    /\ continued = <<ev.arg>>

\* Steps: a trigger handled in IDLE with an expense context and a
\* reimbursement account that is not open.
ExpenseBlockedTrigger ==
    TriggerInIdle /\ iouReport /\ reimbursementAccount # STATE_OPEN

\* C6, as claimed: an expense-blocked trigger opens no menu, requests no
\* navigation and invokes no continuation.
C6_ExpenseBlockedLogOnly ==
    [][ExpenseBlockedTrigger =>
          /\ ~shouldShowAddPaymentMenu'
          /\ navigated' = <<>> /\ continued' = <<>>]_vars

\* C6, amended: an expense-blocked trigger opens the menu at the anchor of
\* the pressed button, whatever the fund and bank account lists hold; it
\* requests no navigation and invokes no continuation.
C6_ExpenseBlockedOpensMenu ==
    [][ExpenseBlockedTrigger =>
          /\ shouldShowAddPaymentMenu'
          /\ anchorPosition' =
               getAnchorPosition(getClickedTargetLocation(ev'.target, layout),
                                 popoverPlacement)
          /\ navigated' = <<>> /\ continued' = <<>>]_vars

\* C6 happens: an expense-blocked trigger has opened the menu although the
\* lists hold usable instruments and the wallet is gold.
C6_Witness ==
    /\ AfterTriggerInIdle /\ iouReport /\ reimbursementAccount = "PENDING"
    /\ UsableInstruments # {} /\ userWallet = TIER_GOLD
    /\ shouldShowAddPaymentMenu /\ navigated = <<>> /\ continued = <<>>

\* The outcomes a step of a trigger handled in IDLE has had: 1 the menu was
\* opened, 2 the enable-payments route was requested, 3 the continuation was
\* invoked.
TriggerOutcomes ==
    {k \in 1..3 :
        \/ k = 1 /\ shouldShowAddPaymentMenu'
        \/ k = 2 /\ \E i \in 1..Len(navigated') : navigated'[i] = enablePaymentsRoute
        \/ k = 3 /\ continued' # <<>>}

\* C7: a trigger handled in IDLE never has two of the three outcomes, and
\* has none of them only if it is expense-blocked.
C7_ExactlyOneOutcome ==
    [][TriggerInIdle =>
          /\ Cardinality(TriggerOutcomes) <= 1
          /\ (TriggerOutcomes = {} => iouReport /\ reimbursementAccount # STATE_OPEN)]_vars

\* C7 happens: a trigger with a silver wallet had the one outcome of the
\* navigation.
C7_Witness ==
    /\ AfterTriggerInIdle /\ ~iouReport /\ userWallet = "SILVER"
    /\ navigated = <<enablePaymentsRoute>>
    /\ ~shouldShowAddPaymentMenu /\ continued = <<>>

\* C8: a selection handled in MENU_OPEN ends in IDLE and requests the bank
\* account route once for the bank account, the debit card route once for the
\* debit card and nothing for any other item; it invokes no continuation and
\* never requests the enable-payments route.
C8_SelectRemediation ==
    [][ev'.op = "select" /\ shouldShowAddPaymentMenu =>
          /\ ~shouldShowAddPaymentMenu'
          /\ (ev'.arg = BANK_ACCOUNT => navigated' = <<addBankAccountRoute>>)
          /\ (ev'.arg = DEBIT_CARD => navigated' = <<addDebitCardRoute>>)
          /\ (ev'.arg \notin {BANK_ACCOUNT, DEBIT_CARD} => navigated' = <<>>)
          /\ \A i \in 1..Len(navigated') : navigated'[i] # enablePaymentsRoute
          /\ continued' = <<>>]_vars

\* C8 happens: the debit card was chosen in the open menu.
C8_Witness ==
    /\ ev.op = "select" /\ ev.wasVisible /\ ev.arg = DEBIT_CARD
    /\ navigated = <<addDebitCardRoute>>
    /\ ~shouldShowAddPaymentMenu

\* C9: a mounted wall can always be dismissed, and the dismissal ends in
\* IDLE, requests no navigation, invokes no continuation and leaves
\* anchorPosition and lastTargetElementRef alone.
C9_Dismiss ==
    /\ [](mounted => ENABLED onClose)
    /\ [][ev'.op = "dismiss" =>
             /\ ~shouldShowAddPaymentMenu'
             /\ navigated' = <<>> /\ continued' = <<>>
             /\ anchorPosition' = anchorPosition
             /\ transferBalanceButtonRef' = transferBalanceButtonRef]_vars

\* C9 happens: an open menu was dismissed, and its position and target are
\* still there.
C9_Witness ==
    /\ ev.op = "dismiss" /\ ev.wasVisible
    /\ ~shouldShowAddPaymentMenu
    /\ transferBalanceButtonRef # NullRef
    /\ anchorPosition =
         getAnchorPosition(getClickedTargetLocation(transferBalanceButtonRef, layout),
                           popoverPlacement)

\* The anchor of the last pressed button in the layout the page is given.
AnchorOfLastTarget ==
    getAnchorPosition(getClickedTargetLocation(transferBalanceButtonRef', layout'),
                      popoverPlacement')

\* Steps: the menu is opened; the page is resized while the menu is open.
MenuOpens == ~shouldShowAddPaymentMenu /\ shouldShowAddPaymentMenu'
ResizeWhileOpen == ev'.op = "resize" /\ shouldShowAddPaymentMenu

\* C10, as claimed: the menu is opened at the anchor of the pressed button,
\* and after a resize while the menu is open, listening or not, the anchor is
\* that of the button's current geometry.
C10_NoStaleAnchor ==
    [][/\ MenuOpens => anchorPosition' = AnchorOfLastTarget
       /\ ResizeWhileOpen => anchorPosition' = AnchorOfLastTarget]_vars

\* C10, amended: the menu is opened at the anchor of the pressed button; a
\* resize while the menu is open moves the anchor to that of the button's
\* current geometry if the wall listens for resizes; and while the menu stays
\* open nothing else changes the anchor.
C10_AnchorFreshWhenListening ==
    [][/\ MenuOpens => anchorPosition' = AnchorOfLastTarget
       /\ ResizeWhileOpen /\ shouldListenForResize =>
             anchorPosition' = AnchorOfLastTarget
       /\ shouldShowAddPaymentMenu /\ shouldShowAddPaymentMenu'
             /\ ~(ev'.op = "resize" /\ shouldListenForResize) =>
             anchorPosition' = anchorPosition]_vars

\* C10 happens: the page was resized to another layout under the open menu
\* of a listening wall, and the anchor has moved with the button.
C10_Witness ==
    /\ ev.op = "resize" /\ ev.wasVisible /\ shouldShowAddPaymentMenu
    /\ shouldListenForResize /\ layout # 0
    /\ anchorPosition =
         getAnchorPosition(getClickedTargetLocation(transferBalanceButtonRef, layout),
                           popoverPlacement)

\* Steps: the effect of the wall is cleaned up, at an unmount or because a
\* dependency changed.
EffectCleanedUp == ev'.op \in {"unmount", "rerender"}

\* C11: the wall has a listener registered only while it is mounted and told
\* to listen for resizes, and never more than one; a cleanup of the effect
\* releases the listener registered before it, so that what is left is the one
\* registration of the effect that runs after it, if any; and a resize of the
\* page of an unmounted wall does not change anchorPosition.
C11_ScopedResizeSubscription ==
    /\ [](Len(listeners) <= 1)
    /\ [](listeners # <<>> => mounted /\ shouldListenForResize)
    /\ [][EffectCleanedUp =>
             listeners' = IF mounted' /\ shouldListenForResize'
                          THEN <<popoverPlacement'>>
                          ELSE <<>>]_vars
    /\ [][~mounted /\ ev'.op = "resize" => anchorPosition' = anchorPosition]_vars

\* C11 happens: a listening wall was unmounted while its menu was open, and
\* no listener is left.
C11_Witness ==
    /\ ev.op = "unmount" /\ ev.wasVisible
    /\ shouldListenForResize
    /\ listeners = <<>>

\* C12, as claimed: after the wall is unmounted kycWallRef is null and the
\* published source chat report ID is cleared, and the cleanup does not throw.
C12_DeactivationClearsBoth ==
    [][ev'.op = "unmount" =>
          /\ kycWallRef' = Null
          /\ kycWallSourceChatReportID' = Null
          /\ ~thrown']_vars

\* C12, amended: a mounted wall can always be unmounted; after it is,
\* kycWallRef is null, the published source chat report ID is still the one
\* the wall published, and the cleanup has not thrown.
C12_DeactivationClearsReference ==
    /\ [](mounted => ENABLED unmount)
    /\ [][ev'.op = "unmount" =>
             /\ kycWallRef' = Null
             /\ kycWallSourceChatReportID' = kycWallSourceChatReportID
             /\ kycWallSourceChatReportID' = chatReportID
             /\ ~thrown']_vars

\* C12 happens: the wall was unmounted while its menu was open.
C12_Witness ==
    /\ ev.op = "unmount" /\ ev.wasVisible /\ ~mounted
    /\ kycWallRef = Null
    /\ kycWallSourceChatReportID = chatReportID

\* The wall whose effect wrote kycWallRef last, of those mounted.
Holder == activeWalls[Len(activeWalls)]

\* C13, as claimed: with two walls, kycWallRef is cleared only by the
\* deactivation of the wall that holds it, the one whose effect wrote it last.
C13_SingleHolder ==
    [][kycWallRef # Null /\ kycWallRef' = Null =>
          /\ activeWalls # <<>>
          /\ activeWalls' = without(activeWalls, Holder)]_vars

\* Some record of the account is absent.
AbsentRecord == fundList.isNull \/ reimbursementAccount = Null \/ userWallet = Null

\* C14, as claimed: a trigger handled in IDLE while some record of the
\* account is absent completes without an error, and when no instrument is
\* usable its outcome is the blocked one: the menu is opened, nothing
\* continues and nothing is navigated to.
C14_AbsentDegradesToBlocked ==
    [][TriggerInIdle /\ AbsentRecord =>
          /\ ~thrown'
          /\ (~iouReport /\ UsableInstruments = {} =>
                /\ shouldShowAddPaymentMenu'
                /\ continued' = <<>>
                /\ navigated' = <<>>)]_vars

\* The anchor the specification defines for a rectangle and a placement.
ReferenceAnchor(g, placement) ==
    IF placement = "bottom"
    THEN [anchorPositionVertical |-> g.top + g.height - 2,
          anchorPositionHorizontal |-> g.left + 20]
    ELSE [anchorPositionVertical |-> g.top - 8,
          anchorPositionHorizontal |-> g.left]

ExampleRect == [top |-> 100, left |-> 50, height |-> 20, width |-> 80]

\* C15: what getAnchorPosition returns is the reference anchor, for every
\* rectangle and placement: for the example rectangle {118, 70} below the
\* target and {92, 50} above it.
C15_AnchorMatchesReference ==
    calc.calls > 0 =>
        /\ calc.position = ReferenceAnchor(calc.domRect, calc.placement)
        /\ (calc.domRect = ExampleRect /\ calc.placement = "bottom" =>
               calc.position = [anchorPositionVertical |-> 118,
                                anchorPositionHorizontal |-> 70])
        /\ (calc.domRect = ExampleRect /\ calc.placement = "top" =>
               calc.position = [anchorPositionVertical |-> 92,
                                anchorPositionHorizontal |-> 50])

C15_Witness ==
    /\ calc.calls = 1
    /\ calc.domRect = ExampleRect
    /\ calc.placement = "bottom"
    /\ calc.position.anchorPositionVertical = 118

\* Steps: Dimensions emits 'change' while the wall is mounted and listens.
ResizeWhileListening == ev'.op = "resize" /\ mounted /\ shouldListenForResize

\* C16: a resize while the wall is mounted and listens, the menu showing or
\* not, sets the anchor to that of the current geometry of the last pressed
\* button, or leaves it if no button was pressed yet; it leaves the menu and
\* the stored button as they are, navigates nowhere and continues nothing.
C16_ResizeReanchors ==
    [][ResizeWhileListening =>
          /\ anchorPosition' =
                IF transferBalanceButtonRef = NullRef
                THEN anchorPosition
                ELSE getAnchorPosition(
                         getClickedTargetLocation(transferBalanceButtonRef, layout'),
                         popoverPlacement)
          /\ shouldShowAddPaymentMenu' = shouldShowAddPaymentMenu
          /\ transferBalanceButtonRef' = transferBalanceButtonRef
          /\ navigated' = <<>>
          /\ continued' = <<>>]_vars

\* C16 happens: a listening wall with its menu hidden and a button stored
\* was resized to another layout, and the anchor is that of the button's
\* new geometry, which the geometry at trigger time does not give.
C16_Witness ==
    /\ ev.op = "resize" /\ ~ev.wasVisible /\ ~shouldShowAddPaymentMenu
    /\ mounted /\ shouldListenForResize
    /\ transferBalanceButtonRef # NullRef /\ layout # 0
    /\ anchorPosition =
         getAnchorPosition(getClickedTargetLocation(transferBalanceButtonRef, layout),
                           popoverPlacement)
    /\ anchorPosition #
         getAnchorPosition(getClickedTargetLocation(transferBalanceButtonRef, 0),
                           popoverPlacement)

\* The step requests one of the two remediation routes.
RemediationRequested ==
    \E i \in 1..Len(navigated') :
        navigated'[i] \in {addBankAccountRoute, addDebitCardRoute}

\* C17, as claimed: a remediation route is requested only by a selection
\* handled while the menu is showing, and a selection handled while the menu
\* is hidden requests no navigation.
C17_SelectOnlyInMenuOpen ==
    [][/\ RemediationRequested => ev'.op = "select" /\ shouldShowAddPaymentMenu
       /\ ev'.op = "select" /\ ~shouldShowAddPaymentMenu => navigated' = <<>>]_vars

\* C18, as claimed: while the wall is mounted, and no other wall was mounted
\* in between, kycWallRef is set and it is this wall.
C18_RegistersItself ==
    mounted => kycWallRef # Null /\ kycWallRef # Undefined /\ kycWallRef = ThisWall

\* The second call was given a rectangle with the top, height and left of
\* the first.
SameButWidth ==
    /\ calc.domRect.top = calc.previous.top
    /\ calc.domRect.height = calc.previous.height
    /\ calc.domRect.left = calc.previous.left

\* C19: for a menu below the target, two calls of getAnchorPosition with
\* rectangles that have the same top, height and left return the same
\* anchor, whatever the widths of the two, the same width included.
C19_WidthIndependent ==
    calc.calls = 2 /\ calc.placement = "bottom" /\ SameButWidth =>
        calc.position = calc.previousPosition

\* C19 happens: the second call had a rectangle of another width.
C19_Witness ==
    /\ calc.calls = 2 /\ calc.placement = "bottom" /\ SameButWidth
    /\ calc.domRect.width # calc.previous.width
    /\ calc.position = calc.previousPosition
    /\ calc.position.anchorPositionHorizontal = calc.domRect.left + 20

\* The account state is blocked: no usable instrument, or for an expense
\* report a reimbursement account that is not open.
Blocked ==
    \/ iouReport /\ reimbursementAccount # STATE_OPEN
    \/ ~iouReport /\ UsableInstruments = {}

\* C20: a push of an account record changes neither the menu nor its anchor
\* nor the stored button and requests and continues nothing; and a trigger
\* handled in IDLE decides on the records as they are when it is handled:
\* it continues exactly if they are eligible and opens the menu exactly if
\* they are blocked.
C20_AccountReadOnly ==
    [][/\ ev'.op = "account" =>
             /\ shouldShowAddPaymentMenu' = shouldShowAddPaymentMenu
             /\ anchorPosition' = anchorPosition
             /\ transferBalanceButtonRef' = transferBalanceButtonRef
             /\ navigated' = <<>>
             /\ continued' = <<>>
       /\ TriggerInIdle =>
             /\ continued' # <<>> <=> Eligible
             /\ shouldShowAddPaymentMenu' <=> Blocked]_vars

\* C20 happens: a record was pushed under the open menu, the account is now
\* eligible, and the menu is still open.
C20_Witness ==
    /\ ev.op = "account" /\ ev.wasVisible
    /\ shouldShowAddPaymentMenu /\ Eligible
    /\ navigated = <<>> /\ continued = <<>>

====
